---------------------------- MODULE Spec2Model ----------------------------
(***************************************************************************)
(* Verification model of the youtubr download-and-merge workers.           *)
(*                                                                         *)
(*   worker : src/youtubr/ghost_workers/worker.py  (Worker, QRunnable)     *)
(*   gpt    : src/youtubr-FINAL PROJECT/gpt.py     (Worker, QRunnable)     *)
(*                                                                         *)
(* A behaviour runs one of the two programs (variable program, fixed in    *)
(* Init).  Under "worker" one or two Worker objects are handed to the      *)
(* thread pool and their run() methods interleave; they share the file     *)
(* system.  Under "gpt" one Worker.run executes.                           *)
(*                                                                         *)
(* The stream provider (pytubefix), the merge tool (ffmpeg), the file      *)
(* system calls and the clock are the environment: wherever they decide an *)
(* outcome, the model takes every outcome they can produce.                *)
(*                                                                         *)
(* Every signal emission and every call to the environment is appended to  *)
(* the job's trace, in program order (what a mock of the signals and of    *)
(* the collaborators would record).                                        *)
(***************************************************************************)
EXTENDS Integers, Sequences, FiniteSets, TLC

(***************************************************************************)
(* Bounds of the model.                                                    *)
(***************************************************************************)
\* largest declared stream size (bytes) of a gpt.py job
MaxSize == 2
\* largest stream.filesize (bytes) of a worker.py job: 3 gives the inexact
\* percents 33 and 66
MaxFilesize == 3
\* progress callbacks the provider makes in one run when a single job runs
MaxChunks == 2

\* the Worker objects handed to the thread pool
Jobs == {1, 2}

\* callbacks per run when two jobs run concurrently
ConcChunks == IF MaxChunks > 0 THEN 1 ELSE 0

\* iterations of gpt.py's merge wait loop that find the tool still running
MaxPolls == 3

(***************************************************************************)
(* Texts of the signals (ASCII renderings of the source's literals).       *)
(***************************************************************************)
MsgNoStream       == "No suitable video or audio streams found"
MsgInvalidURL     == "Invalid YouTube URL structure."
MsgUnavailable    == "Video unavailable: "
MsgErrorPrefix    == "Error: "
MsgCallbackError  == "Progress callback error: "
MsgMergeFailed    == "FFmpeg merge failed. Command: "
MsgStderr         == ". Stderr: "
MsgFfmpegNotFound == "FFmpeg not found in $PATH."
MsgMergerFailed   == "Ffmpeg merger failed:"
MsgCleanupFailed  == "Failed to clean up tempFiles:"
MsgEmptyURL       == "Kua Serious Buda !!"
MsgDownloadingVideo == "Downloading video (1/2) .."
MsgDownloadingAudio == "Downloading audio (2/2)"
MsgMerging        == "Merging..."
MsgDownloaded     == "Downloaded "
\* gpt.py
MsgNoURL          == "No URL provided"
MsgGptVideo       == "Downloading video..."
MsgGptAudio       == "Downloading audio..."
MsgGptMerging     == "Merging streams..."
MsgGptFfmpegFailed == "ffmpeg failed: "
MsgGptComplete    == " Download Complete "

(***************************************************************************)
(* Trace entries.  k is the kind: a signal ("finished", "message",         *)
(* "progress", "error") or "call" for a call into the environment; s is    *)
(* the text (or the callee), n the integer carried by progress, x the      *)
(* variable part of a text (a sequence of characters) or the arguments of  *)
(* a call.                                                                 *)
(***************************************************************************)
(* Texts whose characters matter (titles, stderr) are sequences of         *)
(* one-character strings.                                                  *)
(***************************************************************************)
\* longest title / longest stderr text considered
MaxTitle == 2
MaxStderr == 2

Texts(chars, n) == UNION {[1..k -> chars] : k \in 0..n}

\* str.isalnum() holds for letters and digits
Alnum == {"a", "1"}
Whitespace == {" ", "\n"}
\* the characters of titles: letters, digits, space, underscore, hyphen and
\* two characters that are none of these
TitleChars == Alnum \cup {" ", "_", "-", "?", "\n"}
Titles == Texts(TitleChars, MaxTitle)
\* what the merge tool can leave on stderr
StderrTexts == Texts({"e", "\n"}, MaxStderr)

RECURSIVE rstrip(_)
\* str.rstrip(): trailing whitespace removed
rstrip(t) ==
  IF t # << >> /\ t[Len(t)] \in Whitespace THEN rstrip(SubSeq(t, 1, Len(t) - 1)) ELSE t

RECURSIVE lstrip(_)
\* str.lstrip(): leading whitespace removed
lstrip(t) ==
  IF t # << >> /\ t[1] \in Whitespace THEN lstrip(Tail(t)) ELSE t

\* str.strip() of a text
strip_text(t) == lstrip(rstrip(t))

\* c.isalnum() or c in " _-"
Permitted(c) == c \in Alnum \/ c \in {" ", "_", "-"}

\* gpt.py's fallback name
Ytdl == <<"y", "t", "d", "l">>

\* worker.py line 179: the filename stem of a title
safe_title(t) == rstrip(SelectSeq(t, Permitted))

\* gpt.py lines 219-222: the filename stem of a title, "ytdl" if empty
gpt_safe_title(t) ==
  LET st == rstrip(SelectSeq(t, Permitted))
  IN IF st = << >> THEN Ytdl ELSE st

\* os.path.join(a, b)
join(a, b) == <<a, b>>

\* worker.py line 26: the default destination, after expanduser
folder_path == "~/Videos/ytbr"

(***************************************************************************)
EvX(k, s, n, x) == [k |-> k, s |-> s, n |-> n, x |-> x]
Ev(k, s, n) == EvX(k, s, n, << >>)
Finished    == Ev("finished", "", 0)
Message(t)  == Ev("message", t, 0)
Progress(p) == Ev("progress", "", p)
Error(t)    == Ev("error", t, 0)
Call(c)     == Ev("call", c, 0)
\* the provider reports bytes_remaining = br to the progress callback
Chunk(br)   == Ev("chunk", "bytes_remaining", br)
\* the arguments x of the call of callee c just made
Args(c, x)  == EvX("args", c, 0, x)
\* callee c returned normally
Returned(c) == Ev("ret", c, 0)
\* yt.title was read and is the text x
Title(x)    == EvX("title", "yt.title", 0, x)
\* subprocess.run(cmd, check=True, ...) ended as outcome o
Ran(cmd, o) == EvX("run", o.kind, 0, <<cmd, o.stderr>>)
\* the merge_fraction argument of a call of _emit_unified_progress, in 1/FracDen
Frac(mf)    == Ev("frac", "merge_fraction", mf)

RECURSIVE CountIf(_, _)
\* number of entries of sequence t whose kind is k
CountIf(t, k) ==
  IF t = << >> THEN 0
  ELSE (IF Head(t).k = k THEN 1 ELSE 0) + CountIf(Tail(t), k)

RECURSIVE CountEv(_, _)
\* number of occurrences of entry e in sequence t
CountEv(t, e) ==
  IF t = << >> THEN 0
  ELSE (IF Head(t) = e THEN 1 ELSE 0) + CountEv(Tail(t), e)

\* int(): truncation toward zero of the quotient n / d, d # 0
Trunc(n, d) ==
  LET an == IF n < 0 THEN -n ELSE n
      ad == IF d < 0 THEN -d ELSE d
      q  == an \div ad
  IN IF (n < 0) = (d < 0) THEN q ELSE -q

Max(a, b) == IF a >= b THEN a ELSE b
Min(a, b) == IF a <= b THEN a ELSE b

VARIABLES
  program,       \* what runs: Workers of "worker" (worker.py) or of "gpt"
                 \* (gpt.py), or a function on its own, "safe_title" or "roman"
  \* ---- worker.py, per job ----
  url,           \* Worker.url: "" or "u" (any non-empty text)
  pc,            \* position of the job in run / download_video
  trace,         \* signals emitted and environment calls made, in order
  video_stream,  \* local video_stream: "unbound", "none" or "stream"
  audio_stream,  \* local audio_stream: "unbound", "none" or "stream"
  filesize,      \* stream.filesize of the stream being downloaded (0 if none)
  exc,           \* the exception in flight / last caught ("" if none)
  chunks,        \* progress callbacks the provider may still make
  \* ---- the scratch directories, by path ----
  fs,            \* [dir |-> BOOLEAN, video |-> file, audio |-> file]
  \* ---- gpt.py (the job is job 1; it also uses url, pc, trace, chunks) ----
  declared,      \* sizes the provider declares: [v |-> , a |-> ]
  video_size,    \* Worker.video_size
  audio_size,    \* Worker.audio_size
  video_done,    \* Worker.video_done
  audio_done,    \* Worker.audio_done
  elapsed,       \* time.time() - merge_start at the last reading, in 1/100 s
  last_emit,     \* local last_emit, in 1/FracDen
  polls          \* iterations of the wait loop made so far

\* the functions run on their own: the title handed to the two filename
\* sanitisers with the stems they computed, and the string handed to
\* roman_to_int_strict with its result
VARIABLES yt_title, stems, roman, result
fvars == <<yt_title, stems, roman, result>>

\* ---- main.py : MainApp ----
VARIABLES
  ui,            \* the widgets: controls (url_input and file_choose_btn
                 \* enabled), bar (progress_bar shown), value (its value),
                 \* placeholder (which text), timer (a singleShot is pending)
  inbox          \* signals emitted by Workers, queued for the GUI thread
mvars == <<ui, inbox>>

wvars == <<url, pc, trace, video_stream, audio_stream, filesize, exc, chunks, fs>>
\* ---- gpt.py : the merge tool started by Popen and its output pipe ----
VARIABLES
  tool_out,      \* output the tool has still to write before it exits, in
                 \* bytes
  pipe           \* bytes written to the pipe and not read
pvars == <<tool_out, pipe>>

gvars == <<declared, video_size, audio_size, video_done, audio_done,
           elapsed, last_emit, polls, tool_out, pipe>>

\* a file of a scratch directory: absent, or written by job owner;
\* full is FALSE while the writer is still downloading into it
NoFile == [owner |-> 0, full |-> FALSE]
File(j, full) == [owner |-> j, full |-> full]
NoDir == [dir |-> FALSE, video |-> NoFile, audio |-> NoFile]

\* Worker.__init__: every Worker gets the same scratch directory
temp_yt_folder(j) == "/tmp/ytbr"

\* gpt.py line 140: path.join("/tmp", "ytbr_" + uuid.uuid4().hex)
gpt_temp_yt_folder == "/tmp/ytbr_<uuid>"

Paths == {temp_yt_folder(j) : j \in Jobs} \cup {gpt_temp_yt_folder}

Upd(f, j, v) == [f EXCEPT ![j] = v]
Emit(j, es) == trace' = [trace EXCEPT ![j] = @ \o es]

\* a single Worker was submitted
Solo == \E k \in Jobs : pc[k] = "unused"

\* a job whose run() has been entered and has not returned
Running(j) == pc[j] \notin {"unused", "ready", "done"}

(***************************************************************************)
(* worker.py : Worker.download_video                                       *)
(***************************************************************************)

\* line 98: makedirs(self.temp_yt_folder, exist_ok=True); the first
\* statement of download_video, which run() calls first.  (The empty-URL
\* check of lines 94-96 is commented out in the source.)
download_video_makedirs(j) ==
  /\ program = "worker"
  /\ pc[j] = "ready"
  /\ \/ /\ fs' = [fs EXCEPT ![temp_yt_folder(j)].dir = TRUE]
        /\ Emit(j, <<Call("makedirs")>>)
        /\ pc' = Upd(pc, j, "select")
        /\ exc' = exc
     \/ /\ exc' = Upd(exc, j, "OSError")
        /\ Emit(j, <<Call("makedirs")>>)
        /\ pc' = Upd(pc, j, "run_except")
        /\ fs' = fs
  /\ UNCHANGED <<mvars, fvars, gvars, program, url, video_stream, audio_stream, filesize, chunks>>

\* what the provider can answer for a URL: the empty URL never resolves
SelectOutcomes(u) ==
  IF u = "" THEN {"regex", "other"}
  ELSE {"ok", "no_stream", "regex", "unavailable", "other"}

\* the no-stream branch without its return: the error is emitted and
\* control reaches line 153
no_stream_branch_falls_through(j) ==
  /\ Emit(j, <<Call("YouTube"), Error(MsgNoStream)>>)
  /\ pc' = Upd(pc, j, "video")

\* lines 135-139: if not video_stream or not audio_stream: emit the error
\* and return from download_video
no_stream_branch(j) ==
  /\ Emit(j, <<Call("YouTube"), Error(MsgNoStream)>>)
  /\ pc' = Upd(pc, j, "run_finally")

\* lines 106-151: the try block that builds YouTube(url) and selects the
\* two streams, with its four handlers.  Only the no-stream branch and the
\* RegexMatchError / VideoUnavailable handlers return; the generic handler
\* (lines 149-151) emits and falls through to line 153.
download_video_select(j) ==
  /\ program = "worker"
  /\ pc[j] = "select"
  /\ \E o \in SelectOutcomes(url[j]) :
       \/ /\ o = "ok"
          /\ filesize' = filesize
          /\ video_stream' = Upd(video_stream, j, "stream")
          /\ audio_stream' = Upd(audio_stream, j, "stream")
          /\ Emit(j, <<Call("YouTube")>>)
          /\ pc' = Upd(pc, j, "video")
       \/ /\ o = "no_stream"
          /\ \E v \in {"none", "stream"}, a \in {"none", "stream"} :
               /\ ~(v = "stream" /\ a = "stream")
               /\ video_stream' = Upd(video_stream, j, v)
               /\ audio_stream' = Upd(audio_stream, j, a)
          /\ no_stream_branch(j)
          /\ filesize' = filesize
       \/ /\ o = "regex"
          /\ Emit(j, <<Call("YouTube"), Error(MsgInvalidURL)>>)
          /\ pc' = Upd(pc, j, "run_finally")
          /\ UNCHANGED <<video_stream, audio_stream, filesize>>
       \/ /\ o = "unavailable"
          /\ Emit(j, <<Call("YouTube"), Error(MsgUnavailable)>>)
          /\ pc' = Upd(pc, j, "run_finally")
          /\ UNCHANGED <<video_stream, audio_stream, filesize>>
       \/ /\ o = "other"
          \* raised by YouTube(...) or by the video query (video_stream
          \* unbound), or by the audio query (video_stream assigned, to a
          \* stream or to None); audio_stream is never assigned
          /\ \E v \in (IF url[j] = "" THEN {"unbound"}
                       ELSE {"unbound", "none", "stream"}) :
               video_stream' = Upd(video_stream, j, v)
          /\ audio_stream' = audio_stream
          /\ filesize' = filesize
          /\ Emit(j, <<Call("YouTube"), Error(MsgErrorPrefix)>>)
          /\ pc' = Upd(pc, j, "video")
  /\ UNCHANGED <<mvars, fvars, gvars, program, url, exc, chunks, fs>>

\* the sizes streams declare: none, one byte or the largest when a job runs
\* alone, none or the largest when two jobs run concurrently
Sizes == IF Solo THEN {0, 1, MaxFilesize} ELSE {0, MaxFilesize}

\* stream.download(output_path, filename, skip_existing=True) up to the
\* point where the provider starts to transfer: with skip_existing the
\* provider returns at once when a complete file of the stream's size is
\* already at the path; otherwise it (re)creates the directory and opens
\* the file for writing.  kind is "video" or "audio".
StartDownload(j, kind, skip) ==
  LET p == temp_yt_folder(j)
      f == fs[p][kind]
  IN IF skip
     THEN /\ fs[p].dir /\ f # NoFile /\ f.full
          /\ fs' = fs
          /\ filesize' = filesize
     ELSE /\ fs' = [fs EXCEPT ![p] = [@ EXCEPT !.dir = TRUE, ![kind] = File(j, FALSE)]]
          /\ \E size \in Sizes : filesize' = Upd(filesize, j, size)

\* the provider closes the file: it is complete, unless it was unlinked or
\* reopened by someone else meanwhile
EndDownload(j, kind) ==
  LET p == temp_yt_folder(j)
  IN /\ fs' = IF fs[p][kind].owner = j
              THEN [fs EXCEPT ![p][kind] = File(j, TRUE)]
              ELSE fs
     /\ filesize' = Upd(filesize, j, 0)

\* lines 161-165 / 171-175: stream.download(output_path=self.temp_yt_folder,
\* filename="<kind>.mp4", skip_existing=True)
download_call(j, kind) ==
  <<Call(kind \o ".download"), Args(kind \o ".download", join(temp_yt_folder(j), kind \o ".mp4"))>>

\* lines 153-165: message, then video_stream.download(...)
download_video_video(j) ==
  /\ program = "worker"
  /\ pc[j] = "video"
  /\ \/ /\ video_stream[j] # "stream"
        /\ exc' = Upd(exc, j, IF video_stream[j] = "unbound"
                               THEN "UnboundLocalError" ELSE "AttributeError")
        /\ Emit(j, <<Message(MsgDownloadingVideo)>>)
        /\ pc' = Upd(pc, j, "run_except")
        /\ UNCHANGED <<fs, filesize>>
     \/ /\ video_stream[j] = "stream"
        /\ exc' = exc
        /\ \/ /\ StartDownload(j, "video", TRUE)
              \* skipped: download returns, line 167 emits 80
              /\ Emit(j, <<Message(MsgDownloadingVideo)>>
                          \o download_call(j, "video")
                          \o <<Returned("video.download"), Progress(80)>>)
              /\ pc' = Upd(pc, j, "audio")
           \/ /\ StartDownload(j, "video", FALSE)
              /\ Emit(j, <<Message(MsgDownloadingVideo)>> \o download_call(j, "video"))
              /\ pc' = Upd(pc, j, "video_dl")
  /\ UNCHANGED <<mvars, fvars, gvars, program, url, video_stream, audio_stream, chunks>>

\* the percent of 65 that an earlier version of line 41 computed
on_progress_callback_of_65(total, bytes_remaining) ==
  IF total = 0
  THEN <<Error(MsgCallbackError)>>
  ELSE <<Progress(Trunc((total - bytes_remaining) * 65, total))>>

\* lines 35-44: on_progress_callback(stream, chunk, bytes_remaining) for a
\* stream of declared size total: the entries it appends to the trace
on_progress_callback(total, bytes_remaining) ==
  IF total = 0
  THEN <<Error(MsgCallbackError)>>          \* ZeroDivisionError, caught
  ELSE <<Progress(Trunc((total - bytes_remaining) * 100, total))>>

\* the bytes_remaining the provider reports: any value up to the largest
\* size when a job runs alone, the last chunk only when two jobs run
\* concurrently
Remaining == IF Solo THEN 0..MaxFilesize ELSE {0}

\* the provider reports a chunk of the stream being downloaded
ProgressChunk(j) ==
  /\ program = "worker"
  /\ pc[j] \in {"video_dl", "audio_dl"}
  /\ chunks[j] > 0
  /\ \E br \in Remaining :
       Emit(j, <<Chunk(br)>> \o on_progress_callback(filesize[j], br))
  /\ chunks' = Upd(chunks, j, chunks[j] - 1)
  /\ UNCHANGED <<mvars, fvars, gvars, program, url, pc, video_stream, audio_stream, filesize, exc, fs>>

\* line 161 returns; line 167: progress.emit(80)
download_video_video_return(j) ==
  /\ program = "worker"
  /\ pc[j] = "video_dl"
  /\ EndDownload(j, "video")
  /\ Emit(j, <<Returned("video.download"), Progress(80)>>)
  /\ pc' = Upd(pc, j, "audio")
  /\ UNCHANGED <<mvars, fvars, gvars, program, url, video_stream, audio_stream, exc, chunks>>

\* a download raises (network, file system): nothing in download_video
\* catches it
DownloadRaises(j) ==
  /\ program = "worker"
  /\ pc[j] \in {"video_dl", "audio_dl"}
  /\ exc' = Upd(exc, j, "DownloadError")
  /\ pc' = Upd(pc, j, "run_except")
  /\ filesize' = Upd(filesize, j, 0)
  /\ UNCHANGED <<mvars, fvars, gvars, program, url, trace, video_stream, audio_stream, chunks, fs>>

\* lines 170-175: message, then audio_stream.download(...)
download_video_audio(j) ==
  /\ program = "worker"
  /\ pc[j] = "audio"
  /\ \/ /\ audio_stream[j] # "stream"
        /\ exc' = Upd(exc, j, IF audio_stream[j] = "unbound"
                               THEN "UnboundLocalError" ELSE "AttributeError")
        /\ Emit(j, <<Message(MsgDownloadingAudio)>>)
        /\ pc' = Upd(pc, j, "run_except")
        /\ UNCHANGED <<fs, filesize>>
     \/ /\ audio_stream[j] = "stream"
        /\ exc' = exc
        /\ \/ /\ StartDownload(j, "audio", TRUE)
              \* skipped: download returns, line 176 emits 90
              /\ Emit(j, <<Message(MsgDownloadingAudio)>>
                          \o download_call(j, "audio")
                          \o <<Returned("audio.download"), Progress(90)>>)
              /\ pc' = Upd(pc, j, "merge")
           \/ /\ StartDownload(j, "audio", FALSE)
              /\ Emit(j, <<Message(MsgDownloadingAudio)>> \o download_call(j, "audio"))
              /\ pc' = Upd(pc, j, "audio_dl")
  /\ UNCHANGED <<mvars, fvars, gvars, program, url, video_stream, audio_stream, chunks>>

\* line 171 returns; line 176: progress.emit(90)
download_video_audio_return(j) ==
  /\ program = "worker"
  /\ pc[j] = "audio_dl"
  /\ EndDownload(j, "audio")
  /\ Emit(j, <<Returned("audio.download"), Progress(90)>>)
  /\ pc' = Upd(pc, j, "merge")
  /\ UNCHANGED <<mvars, fvars, gvars, program, url, video_stream, audio_stream, exc, chunks>>

\* what subprocess.run(merge_cmd, check=True, ...) can do: return (exit
\* code 0), raise CalledProcessError (non-zero exit, with the captured
\* stderr), raise FileNotFoundError, raise something else
MergeOutcomes ==
  {[kind |-> k, stderr |-> << >>] : k \in {"ok", "notfound", "other"}}
    \cup {[kind |-> "nonzero", stderr |-> e] : e \in StderrTexts}

\* job j runs alone and has received no progress callback
Plain(j) == Solo /\ chunks[j] = MaxChunks

\* the outcomes and titles tried for job j: all of them in a plain run, one
\* of each kind otherwise
JobOutcomes(j) ==
  IF Plain(j) THEN MergeOutcomes
  ELSE {o \in MergeOutcomes : o.kind = "nonzero" => o.stderr = <<"e", "\n">>}
JobTitles(j) == IF Plain(j) THEN {<<"a", " ">>, <<"?">>} ELSE {<<"a", " ">>}

\* lines 47-57
merge_cmd(video_path, audio_path, output_file) ==
  <<"ffmpeg", "-y", "-i", video_path, "-i", audio_path, "-c", "copy", output_file>>

\* the exception kept instead of re-raised
ffmpeg_merge_swallows(video_path, audio_path, output_file, o) ==
  LET cmd == merge_cmd(video_path, audio_path, output_file)
  IN CASE o.kind = "ok"       -> [emits |-> <<Ran(cmd, o)>>, raises |-> ""]
       [] o.kind = "nonzero"  ->
            [emits |-> <<Ran(cmd, o),
                         EvX("error", MsgMergeFailed, 0,
                             <<cmd, MsgStderr, strip_text(o.stderr)>>)>>,
             raises |-> ""]
       [] o.kind = "notfound" -> [emits |-> <<Ran(cmd, o), Error(MsgFfmpegNotFound)>>,
                                  raises |-> ""]
       [] OTHER               -> [emits |-> <<Ran(cmd, o), Error(MsgMergerFailed)>>,
                                  raises |-> ""]

\* lines 46-75: ffmpeg_merge for a given outcome o of subprocess.run: the
\* entries it adds to the trace and the exception it re-raises ("" if it
\* returns).  The error of a non-zero exit is
\* MsgMergeFailed + ' '.join(merge_cmd) + MsgStderr + e.stderr.strip().
ffmpeg_merge(video_path, audio_path, output_file, o) ==
  LET cmd == merge_cmd(video_path, audio_path, output_file)
  IN CASE o.kind = "ok"       -> [emits |-> <<Ran(cmd, o)>>, raises |-> ""]
       [] o.kind = "nonzero"  ->
            [emits |-> <<Ran(cmd, o),
                         EvX("error", MsgMergeFailed, 0,
                             <<cmd, MsgStderr, strip_text(o.stderr)>>)>>,
             raises |-> "CalledProcessError"]
       [] o.kind = "notfound" -> [emits |-> <<Ran(cmd, o), Error(MsgFfmpegNotFound)>>,
                                  raises |-> "FileNotFoundError"]
       [] OTHER               -> [emits |-> <<Ran(cmd, o), Error(MsgMergerFailed)>>,
                                  raises |-> "Exception"]

\* the two scratch files passed in the other order
merge_args_swapped(j, st) ==
  <<join(temp_yt_folder(j), "audio.mp4"),
    join(temp_yt_folder(j), "video.mp4"),
    join(folder_path, st \o <<".mp4">>)>>

\* lines 153-154, 180, 185: video_file, audio_file and output_file, the
\* arguments of ffmpeg_merge, for the filename stem st
merge_args(j, st) ==
  <<join(temp_yt_folder(j), "video.mp4"),
    join(temp_yt_folder(j), "audio.mp4"),
    join(folder_path, st \o <<".mp4">>)>>

\* lines 178-192: output name, then the try / except / else around
\* ffmpeg_merge; download_video returns normally on every branch.
\* The tool can only exit 0 when both of its inputs are there.
download_video_merge(j) ==
  /\ program = "worker"
  /\ pc[j] = "merge"
  /\ \E o \in JobOutcomes(j), t \in JobTitles(j) :
       LET p == temp_yt_folder(j)
           a == merge_args(j, safe_title(t))
           m == ffmpeg_merge(a[1], a[2], a[3], o)
           head == <<Title(t), Message(MsgMerging), Call("ffmpeg"), Args("ffmpeg", a)>>
       IN /\ o.kind = "ok" => (fs[p].dir /\ fs[p].video # NoFile /\ fs[p].audio # NoFile)
          /\ IF m.raises = ""
             THEN Emit(j, head \o m.emits
                          \o <<Returned("ffmpeg"), Progress(100), Message(MsgDownloaded)>>)
             \* line 187-188: except Exception as e: error.emit(str(e))
             ELSE Emit(j, head \o m.emits \o <<Error(m.raises)>>)
  /\ pc' = Upd(pc, j, "run_finally")
  /\ UNCHANGED <<mvars, fvars, gvars, program, url, video_stream, audio_stream, filesize, exc, chunks, fs>>

(***************************************************************************)
(* worker.py : Worker.run                                                  *)
(***************************************************************************)

\* lines 81-83: except Exception as e: error.emit(str(e))
run_except(j) ==
  /\ program = "worker"
  /\ pc[j] = "run_except"
  /\ Emit(j, <<Error(exc[j])>>)
  /\ pc' = Upd(pc, j, "run_finally")
  /\ UNCHANGED <<mvars, fvars, gvars, program, url, video_stream, audio_stream, filesize, exc, chunks, fs>>

\* finished emitted after the try statement instead of in its finally
\* clause: a job whose exception reached run() ends without it
run_finished_after_try(j) ==
  /\ program = "worker"
  /\ pc[j] = "run_finally"
  /\ IF exc[j] = "" THEN Emit(j, <<Finished>>) ELSE trace' = trace
  /\ pc' = Upd(pc, j, "cleanup")
  /\ UNCHANGED <<mvars, fvars, gvars, program, url, video_stream, audio_stream, filesize, exc, chunks, fs>>

\* lines 84-85: finally: finished.emit()
run_finally(j) ==
  /\ program = "worker"
  /\ pc[j] = "run_finally"
  /\ Emit(j, <<Finished>>)
  /\ pc' = Upd(pc, j, "cleanup")
  /\ UNCHANGED <<mvars, fvars, gvars, program, url, video_stream, audio_stream, filesize, exc, chunks, fs>>

\* lines 86-91: if path.exists(temp): try rmtree(temp) except: error.emit;
\* then run returns.  A failed rmtree leaves the directory behind.
run_cleanup(j) ==
  /\ program = "worker"
  /\ pc[j] = "cleanup"
  /\ LET p == temp_yt_folder(j)
     IN IF fs[p].dir
        THEN \/ /\ fs' = [fs EXCEPT ![p] = NoDir]
                /\ Emit(j, <<Call("rmtree")>>)
             \/ /\ fs' = fs
                /\ Emit(j, <<Call("rmtree"), Error(MsgCleanupFailed)>>)
        ELSE /\ fs' = fs
             /\ trace' = trace
  /\ pc' = Upd(pc, j, "done")
  /\ UNCHANGED <<mvars, fvars, gvars, program, url, video_stream, audio_stream, filesize, exc, chunks>>

WorkerNext ==
  \E j \in Jobs :
    \/ download_video_makedirs(j)
    \/ download_video_select(j)
    \/ download_video_video(j)
    \/ ProgressChunk(j)
    \/ download_video_video_return(j)
    \/ DownloadRaises(j)
    \/ download_video_audio(j)
    \/ download_video_audio_return(j)
    \/ download_video_merge(j)
    \/ run_except(j)
    \/ run_finally(j)
    \/ run_cleanup(j)

\* one or two Workers are submitted; nothing has run yet
WorkerInit ==
  /\ program = "worker"
  /\ \E n \in {1, 2} :
       /\ pc = [j \in Jobs |-> IF j <= n THEN "ready" ELSE "unused"]
       /\ chunks = [j \in Jobs |-> IF n = 1 THEN MaxChunks ELSE ConcChunks]
       /\ url \in {u \in [Jobs -> {"", "u"}] : \A j \in Jobs : j > n => u[j] = "u"}
  /\ trace = [j \in Jobs |-> << >>]
  /\ video_stream = [j \in Jobs |-> "unbound"]
  /\ audio_stream = [j \in Jobs |-> "unbound"]
  /\ filesize = [j \in Jobs |-> 0]
  /\ exc = [j \in Jobs |-> ""]
  /\ fs = [p \in Paths |-> NoDir]

(***************************************************************************)
(* gpt.py : Worker                                                         *)
(***************************************************************************)
G == 1   \* the job that runs gpt.py's Worker.run

\* fractions of the merge phase are kept in units of 1/FracDen:
\* elapsed / ramp_seconds with elapsed in 1/100 s and ramp_seconds = 12.0
FracDen == 1200
\* min(0.99, ...) of line 262
FracCap == 1188
\* the 0.005 of line 264
MinDelta == 6
\* time.sleep(0.08) of line 267, in 1/100 s
SleepTime == 8
\* the provider made no progress callback in this run
Quiet == chunks[G] = MaxChunks

\* what the clock can have advanced by at a reading: the first one follows
\* merge_start at once or after a delay, the later ones follow a
\* time.sleep(0.08), which may last much longer.  The schedules of the
\* clock are all tried in the runs without callbacks; a run with callbacks
\* is followed with the long step only.
Advances(first) ==
  IF ~Quiet THEN {FracDen \div 2}
  ELSE IF first THEN {0, SleepTime} ELSE {SleepTime, FracDen \div 2}

\* line 59: url.strip()
strip(u) == IF u = " " THEN "" ELSE u

\* the unified value reported in 0.1 % steps (0..1000) instead of percent
emit_unified_permille(vd, vs, ad, as, mf) ==
  LET vn == IF vs # 0 THEN vd ELSE 0
      vq == IF vs # 0 THEN vs ELSE 1
      an == IF as # 0 THEN ad ELSE 0
      aq == IF as # 0 THEN as ELSE 1
      permille == Trunc(400 * vn * aq * FracDen + 400 * an * vq * FracDen
                        + 200 * mf * vq * aq,
                        vq * aq * FracDen)
  IN IF permille < 0 THEN 0 ELSE IF permille > 1000 THEN 1000 ELSE permille

\* lines 87-108: _emit_unified_progress(merge_fraction): the percent it
\* emits, from the four counters and the merge fraction mf / FracDen.
\* int() of the weighted sum 0.40 v + 0.40 a + 0.20 m, times 100, clamped.
_emit_unified_progress(vd, vs, ad, as, mf) ==
  LET vn == IF vs # 0 THEN vd ELSE 0
      vq == IF vs # 0 THEN vs ELSE 1
      an == IF as # 0 THEN ad ELSE 0
      aq == IF as # 0 THEN as ELSE 1
      percent == Trunc(40 * vn * aq * FracDen + 40 * an * vq * FracDen
                       + 20 * mf * vq * aq,
                       vq * aq * FracDen)
  IN IF percent < 0 THEN 0 ELSE IF percent > 100 THEN 100 ELSE percent

\* lines 131-141: empty URL check, then the two makedirs
gpt_run_start ==
  /\ program = "gpt"
  /\ pc[G] = "ready"
  /\ \/ /\ strip(url[G]) = ""
        /\ Emit(G, <<Error(MsgNoURL)>>)
        /\ pc' = Upd(pc, G, "done")
        /\ UNCHANGED <<fs, exc>>
     \/ /\ strip(url[G]) # ""
        /\ \/ /\ fs' = [fs EXCEPT ![gpt_temp_yt_folder].dir = TRUE]
              /\ Emit(G, <<Call("makedirs")>>)
              /\ pc' = Upd(pc, G, "select")
              /\ exc' = exc
           \/ \* makedirs raises: line 283
              /\ exc' = Upd(exc, G, "OSError")
              /\ Emit(G, <<Call("makedirs"), Error("OSError")>>)
              /\ pc' = Upd(pc, G, "done")
              /\ fs' = fs
  /\ UNCHANGED <<mvars, fvars, gvars, program, url, video_stream, audio_stream, filesize, chunks>>

\* the declared size kept as it is, zero included
recorded_size_no_sentinel(declared_size) == declared_size

\* lines 177-185: the size recorded for a stream; a declared size of 0 is
\* replaced by the sentinel 1
recorded_size(declared_size) == IF declared_size = 0 THEN 1 ELSE declared_size

\* lines 144-201: YouTube(url), stream selection, sizes, start of the
\* video download
gpt_run_select ==
  /\ program = "gpt"
  /\ pc[G] = "select"
  /\ \E o \in {"ok", "no_stream", "raises"} :
       \/ /\ o = "ok"
          /\ \E vs \in 0..MaxSize, as \in 0..MaxSize :
               /\ declared' = [v |-> vs, a |-> as]
               /\ video_size' = recorded_size(vs)
               /\ audio_size' = recorded_size(as)
          /\ video_done' = 0
          /\ audio_done' = 0
          /\ video_stream' = Upd(video_stream, G, "stream")
          /\ audio_stream' = Upd(audio_stream, G, "stream")
          /\ fs' = [fs EXCEPT ![gpt_temp_yt_folder].video = File(G, FALSE)]
          /\ Emit(G, <<Call("YouTube"), Message(MsgGptVideo), Call("video.download")>>)
          /\ pc' = Upd(pc, G, "video_dl")
          /\ exc' = exc
       \/ /\ o = "no_stream"
          /\ \E v \in {"none", "stream"}, a \in {"none", "stream"} :
               /\ ~(v = "stream" /\ a = "stream")
               /\ video_stream' = Upd(video_stream, G, v)
               /\ audio_stream' = Upd(audio_stream, G, a)
          /\ Emit(G, <<Call("YouTube"), Error(MsgNoStream)>>)
          /\ pc' = Upd(pc, G, "done")
          /\ UNCHANGED <<declared, video_size, audio_size, video_done, audio_done, fs, exc>>
       \/ /\ o = "raises"
          /\ exc' = Upd(exc, G, "ProviderError")
          /\ Emit(G, <<Call("YouTube"), Error("ProviderError")>>)
          /\ pc' = Upd(pc, G, "done")
          /\ UNCHANGED <<declared, video_size, audio_size, video_done, audio_done, fs,
                         video_stream, audio_stream>>
  /\ UNCHANGED <<pvars, mvars, fvars, program, url, filesize, chunks, elapsed, last_emit, polls>>

\* the bytes still to come taken for the bytes done
bytes_done_is_remaining(total, bytes_remaining) == bytes_remaining

\* line 116: done = total - bytes_remaining
bytes_done(total, bytes_remaining) == total - bytes_remaining

\* the counter stored as computed, without the max / min
clamp_done_unclamped(total, done) == done

\* line 118 / 120: max(0, min(total, done))
clamp_done(total, done) == Max(0, Min(total, done))

\* a call self._emit_unified_progress(merge_fraction=mf / FracDen) with the
\* counters at (vd, vs, ad, as): the argument and the percent emitted
EmitUnified(vd, vs, ad, as, mf) ==
  <<Frac(mf), Progress(_emit_unified_progress(vd, vs, ad, as, mf))>>

\* lines 110-126: on_progress_callback for the stream being downloaded;
\* total is the provider's declared size, not the sentinel
gpt_on_progress_callback ==
  /\ program = "gpt"
  /\ pc[G] \in {"video_dl", "audio_dl"}
  /\ chunks[G] > 0
  /\ \E bytes_remaining \in (-1)..(MaxSize + 1) :
       LET total == IF pc[G] = "video_dl" THEN declared.v ELSE declared.a
           done  == bytes_done(total, bytes_remaining)
           vd    == IF pc[G] = "video_dl" THEN clamp_done(total, done) ELSE video_done
           ad    == IF pc[G] = "audio_dl" THEN clamp_done(total, done) ELSE audio_done
       IN /\ video_done' = vd
          /\ audio_done' = ad
          /\ Emit(G, <<Chunk(bytes_remaining)>>
                      \o EmitUnified(vd, video_size, ad, audio_size, 0))
  /\ chunks' = Upd(chunks, G, chunks[G] - 1)
  /\ UNCHANGED <<pvars, mvars, fvars, program, url, pc, video_stream, audio_stream, filesize, exc, fs,
                 declared, video_size, audio_size, elapsed, last_emit, polls>>

\* lines 203-212: the video download returned
gpt_run_video_return ==
  /\ program = "gpt"
  /\ pc[G] = "video_dl"
  /\ video_done' = video_size
  /\ fs' = [fs EXCEPT ![gpt_temp_yt_folder] =
              [@ EXCEPT !.video = File(G, TRUE), !.audio = File(G, FALSE)]]
  /\ Emit(G, EmitUnified(video_size, video_size, audio_done, audio_size, 0)
             \o <<Message(MsgGptAudio), Call("audio.download")>>)
  /\ pc' = Upd(pc, G, "audio_dl")
  /\ UNCHANGED <<pvars, mvars, fvars, program, url, video_stream, audio_stream, filesize, exc, chunks,
                 declared, video_size, audio_size, audio_done, elapsed, last_emit, polls>>

\* a download raises: line 283
gpt_run_download_raises ==
  /\ program = "gpt"
  /\ pc[G] \in {"video_dl", "audio_dl"}
  /\ exc' = Upd(exc, G, "DownloadError")
  /\ Emit(G, <<Error("DownloadError")>>)
  /\ pc' = Upd(pc, G, "done")
  /\ UNCHANGED <<mvars, fvars, gvars, program, url, video_stream, audio_stream, filesize, chunks, fs>>

\* lines 245-247: stdout = PIPE, stderr = PIPE: what a pipe holds before a
\* write to it blocks (the default of Linux)
PipeCapacity == 65536

\* the output the tool writes to one of its pipes before it exits: none,
\* a pipe full, more than a pipe full; the amounts are varied in the runs
\* without callbacks on streams that declare no size
ToolOutputs ==
  IF Quiet /\ declared = [v |-> 0, a |-> 0]
  THEN {0, PipeCapacity, PipeCapacity + 1}
  ELSE {0}

\* the tool writes what the pipe takes; with the pipe full it is blocked in
\* write(), since nothing reads the pipe before line 270
ffmpeg_writes ==
  /\ program = "gpt"
  /\ pc[G] = "merge_loop"
  /\ tool_out > 0
  /\ pipe < PipeCapacity
  /\ LET n == Min(tool_out, PipeCapacity - pipe)
     IN /\ pipe' = pipe + n
        /\ tool_out' = tool_out - n
  /\ UNCHANGED <<mvars, fvars, wvars, program, declared, video_size, audio_size,
                 video_done, audio_done, elapsed, last_emit, polls>>

\* lines 214-250: the audio download returned; output name; Popen
gpt_run_audio_return ==
  /\ program = "gpt"
  /\ pc[G] = "audio_dl"
  /\ audio_done' = audio_size
  /\ fs' = [fs EXCEPT ![gpt_temp_yt_folder].audio = File(G, TRUE)]
  /\ \/ /\ Emit(G, EmitUnified(video_done, video_size, audio_size, audio_size, 0)
                   \o <<Message(MsgGptMerging), Call("ffmpeg")>>)
        /\ pc' = Upd(pc, G, "merge_loop")
        /\ exc' = exc
        /\ \E w \in ToolOutputs : tool_out' = w
     \/ \* Popen raises (tool not on the path): line 283
        /\ Emit(G, EmitUnified(video_done, video_size, audio_size, audio_size, 0)
                   \o <<Message(MsgGptMerging), Call("ffmpeg"),
                        Error("FileNotFoundError")>>)
        /\ pc' = Upd(pc, G, "done")
        /\ exc' = Upd(exc, G, "FileNotFoundError")
        /\ tool_out' = 0
  /\ pipe' = 0
  /\ elapsed' = 0
  /\ last_emit' = 0
  /\ polls' = 0
  /\ UNCHANGED <<mvars, fvars, program, url, video_stream, audio_stream, filesize, chunks,
                 declared, video_size, audio_size, video_done>>

\* the ramp without its cap
merge_frac_uncapped(e) == e

\* line 262: frac = min(0.99, elapsed / ramp_seconds), e in 1/100 s
merge_frac(e) == Min(FracCap, e)

\* lines 256-267: one iteration of the wait loop that finds the tool still
\* running: read the clock, emit if the fraction moved enough, sleep
gpt_run_merge_poll ==
  /\ program = "gpt"
  /\ pc[G] = "merge_loop"
  /\ polls < MaxPolls
  /\ \E d \in Advances(polls = 0) :
       LET e    == elapsed + d
           frac == merge_frac(e)
           diff == IF frac >= last_emit THEN frac - last_emit ELSE last_emit - frac
       IN /\ elapsed' = e
          /\ IF diff >= MinDelta
             THEN /\ Emit(G, EmitUnified(video_done, video_size,
                                          audio_done, audio_size, frac))
                  /\ last_emit' = frac
             ELSE /\ trace' = trace
                  /\ last_emit' = last_emit
  /\ polls' = polls + 1
  /\ UNCHANGED <<pvars, mvars, fvars, program, url, pc, video_stream, audio_stream, filesize, exc, chunks, fs,
                 declared, video_size, audio_size, video_done, audio_done>>

\* the [:400] of line 273
StderrLimit == 400
\* lengths of stderr.strip() the tool can leave behind (all tried in the
\* runs without callbacks)
StderrLens == IF Quiet THEN {0, StderrLimit, StderrLimit + 1} ELSE {StderrLimit + 1}

\* proc.communicate() has returned: the tool exited with code rc and
\* stderr.strip() has len characters
Exited(rc, len) == Ev("ret", IF rc = 0 THEN "exit 0" ELSE "exit non-zero", len)

\* the whole text put into the error
stderr_untruncated(len) == len

\* line 273: stderr.strip()[:400], by its length
stderr_excerpt(len) == Min(len, StderrLimit)

\* lines 257-280: poll() finds the tool exited with code rc; communicate;
\* non-zero: error with the stderr excerpt and return; zero: 100 %,
\* message, finished.  The n of the error is the length of the excerpt.
gpt_run_merge_exit ==
  /\ program = "gpt"
  /\ pc[G] = "merge_loop"
  /\ tool_out = 0            \* the tool has written all it had to and exited
  /\ pipe' = 0               \* line 270: communicate() reads the pipes
  /\ tool_out' = 0
  /\ \E rc \in {0, 1} :
       IF rc # 0
       THEN \E len \in StderrLens :
              Emit(G, <<Exited(rc, len),
                        Ev("error", MsgGptFfmpegFailed, stderr_excerpt(len))>>)
       \* the stderr of a tool that exited with 0 is not looked at
       ELSE Emit(G, <<Exited(rc, 0)>>
                    \o EmitUnified(video_done, video_size,
                                   audio_done, audio_size, FracDen)
                    \o <<Message(MsgGptComplete), Finished>>)
  /\ pc' = Upd(pc, G, "done")
  /\ UNCHANGED <<mvars, fvars, program, url, video_stream, audio_stream, filesize, exc, chunks, fs,
                 declared, video_size, audio_size, video_done, audio_done,
                 elapsed, last_emit, polls>>

GptNext ==
  \/ gpt_run_start
  \/ gpt_run_select
  \/ gpt_on_progress_callback
  \/ gpt_run_video_return
  \/ gpt_run_download_raises
  \/ gpt_run_audio_return
  \/ ffmpeg_writes
  \/ gpt_run_merge_poll
  \/ gpt_run_merge_exit

\* the state of a Worker after __init__ (lines 57-79)
GptFields ==
  /\ declared = [v |-> 0, a |-> 0]
  /\ video_size = 0
  /\ audio_size = 0
  /\ video_done = 0
  /\ audio_done = 0
  /\ elapsed = 0
  /\ last_emit = 0
  /\ polls = 0
  /\ tool_out = 0
  /\ pipe = 0

GptInit ==
  /\ program = "gpt"
  /\ pc = [j \in Jobs |-> IF j = G THEN "ready" ELSE "unused"]
  /\ chunks = [j \in Jobs |-> IF j = G THEN MaxChunks ELSE 0]
  /\ url \in {u \in [Jobs -> {"", " ", "u"}] : \A j \in Jobs : j # G => u[j] = "u"}
  /\ trace = [j \in Jobs |-> << >>]
  /\ video_stream = [j \in Jobs |-> "unbound"]
  /\ audio_stream = [j \in Jobs |-> "unbound"]
  /\ filesize = [j \in Jobs |-> 0]
  /\ exc = [j \in Jobs |-> ""]
  /\ fs = [p \in Paths |-> NoDir]
  /\ GptFields

(***************************************************************************)
(* The filename sanitisers, run on a title of their own.                   *)
(***************************************************************************)
\* no Worker submitted
NoJobs ==
  /\ pc = [j \in Jobs |-> "unused"]
  /\ chunks = [j \in Jobs |-> 0]
  /\ url = [j \in Jobs |-> "u"]
  /\ trace = [j \in Jobs |-> << >>]
  /\ video_stream = [j \in Jobs |-> "unbound"]
  /\ audio_stream = [j \in Jobs |-> "unbound"]
  /\ filesize = [j \in Jobs |-> 0]
  /\ exc = [j \in Jobs |-> ""]
  /\ fs = [p \in Paths |-> NoDir]

\* a result not computed yet is << >>, a computed value v is <<v>>
NoStems == [worker |-> << >>, gpt |-> << >>]
NoResult == << >>

\* nothing handed to the functions
FnFields ==
  /\ yt_title = << >>
  /\ stems = NoStems
  /\ roman = << >>
  /\ result = NoResult

SafeTitleInit ==
  /\ program = "safe_title"
  /\ NoJobs /\ GptFields
  /\ yt_title \in Titles
  /\ stems = NoStems
  /\ roman = << >>
  /\ result = NoResult

\* worker.py line 179 on yt_title
worker_safe_title ==
  /\ program = "safe_title"
  /\ stems.worker = << >>
  /\ stems' = [stems EXCEPT !.worker = <<safe_title(yt_title)>>]
  /\ UNCHANGED <<mvars, wvars, gvars, program, yt_title, roman, result>>

\* gpt.py lines 219-222 on yt_title
gpt_run_safe_title ==
  /\ program = "safe_title"
  /\ stems.gpt = << >>
  /\ stems' = [stems EXCEPT !.gpt = <<gpt_safe_title(yt_title)>>]
  /\ UNCHANGED <<mvars, wvars, gvars, program, yt_title, roman, result>>

SafeTitleNext == worker_safe_title \/ gpt_run_safe_title

(***************************************************************************)
(* ROMAN/roman_to_int_strict.py                                            *)
(***************************************************************************)
\* longest string tried that is not picked for being a canonical numeral
MaxRomanLen == 4

\* line 16
roman_map ==
  [c \in {"I", "V", "X", "L", "C", "D", "M"} |->
     CASE c = "I" -> 1 [] c = "V" -> 5 [] c = "X" -> 10 [] c = "L" -> 50
       [] c = "C" -> 100 [] c = "D" -> 500 [] c = "M" -> 1000]

\* the characters of the strings tried: the seven symbols, a letter that
\* is none of them and a newline
RomanChars == DOMAIN roman_map \cup {"A", "\n"}

RECURSIVE Rep(_, _)
\* c{k}
Rep(c, k) == IF k = 0 THEN << >> ELSE <<c>> \o Rep(c, k - 1)

\* a group of line 30: (one ten | one five | five? one{0,3})
Group(one, five, ten) ==
  {<<one, ten>>, <<one, five>>}
    \cup {h \o Rep(one, k) : h \in {<< >>, <<five>>}, k \in 0..3}

\* lines 29-31: the strings roman_pattern matches from ^ to $
PatternLanguage ==
  {m \o c \o x \o i : m \in {Rep("M", k) : k \in 0..3},
                      c \in Group("C", "D", "M"),
                      x \in Group("X", "L", "C"),
                      i \in Group("I", "V", "X")}

\* Pattern.match: $ also matches before a final newline
match(t) ==
  \/ t \in PatternLanguage
  \/ /\ t # << >>
     /\ t[Len(t)] = "\n"
     /\ SubSeq(t, 1, Len(t) - 1) \in PatternLanguage

\* line 33: roman_pattern.fullmatch(s): the whole of s is matched
fullmatch(t) == t \in PatternLanguage

RECURSIVE converted_or_equal(_, _)
\* the loop subtracting when current_number <= next_number
converted_or_equal(t, i) ==
  IF i > Len(t) THEN 0
  ELSE LET current_number == roman_map[t[i]]
           next_number == IF i + 1 <= Len(t) THEN roman_map[t[i + 1]] ELSE 0
       IN (IF current_number <= next_number THEN 0 - current_number
           ELSE current_number) + converted_or_equal(t, i + 1)

RECURSIVE converted_number(_, _)
\* lines 40-53: what the loop adds to converted_number from index i on
\* (indices from 1)
converted_number(t, i) ==
  IF i > Len(t) THEN 0
  ELSE LET current_number == roman_map[t[i]]
           next_number == IF i + 1 <= Len(t) THEN roman_map[t[i + 1]] ELSE 0
       IN (IF current_number < next_number THEN 0 - current_number
           ELSE current_number) + converted_number(t, i + 1)

Return(v) == [raises |-> "", value |-> v]
Raise(e)  == [raises |-> e, value |-> 0]

\* lines 6-55: the value returned or the exception raised for the string t
roman_to_int_strict(t) ==
  IF t = << >> THEN Return(0)
  ELSE IF ~fullmatch(t) THEN Raise("ValueError")
  ELSE IF \E i \in 1..Len(t) : t[i] \notin DOMAIN roman_map THEN Raise("KeyError")
  ELSE Return(converted_number(t, 1))

\* the symbols of the canonical numerals, by value
Symbols ==
  <<[v |-> 1000, r |-> <<"M">>], [v |-> 900, r |-> <<"C", "M">>],
    [v |-> 500, r |-> <<"D">>],  [v |-> 400, r |-> <<"C", "D">>],
    [v |-> 100, r |-> <<"C">>],  [v |-> 90, r |-> <<"X", "C">>],
    [v |-> 50, r |-> <<"L">>],   [v |-> 40, r |-> <<"X", "L">>],
    [v |-> 10, r |-> <<"X">>],   [v |-> 9, r |-> <<"I", "X">>],
    [v |-> 5, r |-> <<"V">>],    [v |-> 4, r |-> <<"I", "V">>],
    [v |-> 1, r |-> <<"I">>]>>

RECURSIVE ToRoman(_)
\* the canonical Roman numeral of n: the largest symbol that fits, first
ToRoman(n) ==
  IF n = 0 THEN << >>
  ELSE LET k == CHOOSE k \in 1..Len(Symbols) :
                  /\ Symbols[k].v <= n
                  /\ \A k2 \in 1..(k - 1) : Symbols[k2].v > n
       IN Symbols[k].r \o ToRoman(n - Symbols[k].v)

\* the largest number with a canonical numeral
MaxRoman == 3999
Canonical == {ToRoman(n) : n \in 1..MaxRoman}

\* the strings handed to the function: every canonical numeral, and every
\* string of up to MaxRomanLen of the characters
RomanInputs == Canonical \cup Texts(RomanChars, MaxRomanLen)

RomanInit ==
  /\ program = "roman"
  /\ NoJobs /\ GptFields
  /\ yt_title = << >>
  /\ stems = NoStems
  /\ roman \in RomanInputs
  /\ result = NoResult

\* a call roman_to_int_strict(roman)
roman_to_int_strict_call ==
  /\ program = "roman"
  /\ result = NoResult
  /\ result' = <<roman_to_int_strict(roman)>>
  /\ UNCHANGED <<mvars, wvars, gvars, program, yt_title, stems, roman>>

RomanNext == roman_to_int_strict_call

(***************************************************************************)
(* main.py : MainApp, with the Workers it hands to the thread pool reduced *)
(* to the signals they emit and the three parts of Worker.run.             *)
(***************************************************************************)
\* signals a Worker may emit from download_video before it returns or raises
MaxSignals == 1

\* lines 52, 60: the window as built by main_ui
NoUi == [controls |-> TRUE, bar |-> FALSE, value |-> 0,
         placeholder |-> "Enter YouTube Link", timer |-> FALSE]
MainFields == ui = NoUi /\ inbox = << >>

MainInit ==
  /\ program = "main"
  /\ NoJobs /\ GptFields /\ FnFields
  /\ MainFields

\* the texts the user may leave in url_input when pressing Return
UrlTexts == {"", " ", "x", "https://youtu.be/x"}
\* str.strip() on those texts
strip_url(t) == IF t = " " THEN "" ELSE t
\* line 214: url_text.startswith("https://youtu.be/")
startswith_youtu_be(t) == t = "https://youtu.be/x"

\* lines 44-47: toggle_controls(enable)
toggle_controls(u, enable) == [u EXCEPT !.controls = enable]

\* QTimer.singleShot(..., restore the placeholder)
singleShot(u) == [u EXCEPT !.timer = TRUE]

\* a signal of Worker j on its way to the GUI thread
Signal(j, e) == [job |-> j, sig |-> e]
Post(j, es) == inbox' = inbox \o [i \in 1..Len(es) |-> Signal(j, es[i])]

\* a Worker the thread pool is running: run() entered and not returned
Executing(j) == pc[j] \in {"run", "run_finally", "cleanup"}

\* the signals the Worker object j may emit from download_video: the
\* variety is explored on the first Worker
SignalBudget(j) == IF j = 1 THEN MaxSignals ELSE 0

\* lines 168-203: worker_init(url) for the next Worker object j: controls
\* off, bar shown, signals connected, threadpool.start(worker)
worker_init(j, u) ==
  /\ ui' = [toggle_controls(ui, FALSE) EXCEPT !.bar = TRUE]
  /\ pc' = Upd(pc, j, "run")
  /\ url' = Upd(url, j, u)
  /\ chunks' = Upd(chunks, j, SignalBudget(j))

\* lines 205-233: url_download_on_return, the slot of returnPressed of
\* url_input; a disabled url_input takes no key press
url_download_on_return ==
  /\ program = "main"
  /\ ui.controls
  /\ \E text \in UrlTexts :
       LET url_text == strip_url(text)
       IN IF url_text = ""
          THEN /\ ui' = singleShot([ui EXCEPT !.placeholder = "Enter url ... empty"])
               /\ UNCHANGED <<pc, url, chunks>>
          ELSE IF ~startswith_youtu_be(url_text)
          THEN /\ ui' = singleShot([ui EXCEPT !.placeholder = "Enter valid Youtube URL"])
               /\ UNCHANGED <<pc, url, chunks>>
          ELSE \/ \* makedirs raises
                  /\ ui' = [ui EXCEPT !.placeholder = "Failed to access folder"]
                  /\ UNCHANGED <<pc, url, chunks>>
               \/ \E j \in Jobs :
                    /\ pc[j] = "unused"
                    /\ \A k \in Jobs : k < j => pc[k] # "unused"
                    /\ worker_init(j, "u")
  /\ UNCHANGED <<inbox, fvars, gvars, program, trace, video_stream, audio_stream,
                 filesize, exc, fs>>

\* worker.py, download_video: the Worker emits a signal (a progress value
\* from the callback or a milestone, a message, or an error that does not
\* end the job, such as the callback's)
pool_download_video_emits(j) ==
  /\ program = "main"
  /\ pc[j] = "run"
  /\ chunks[j] > 0
  /\ \E e \in {Progress(50), Message(MsgDownloaded), Error(MsgCallbackError)} :
       Post(j, <<e>>)
  /\ chunks' = Upd(chunks, j, chunks[j] - 1)
  /\ UNCHANGED <<ui, fvars, gvars, program, url, pc, trace, video_stream, audio_stream,
                 filesize, exc, fs>>

\* worker.py lines 78-83: download_video returns, or raises and run emits
\* the error
pool_run_download_video(j) ==
  /\ program = "main"
  /\ pc[j] = "run"
  /\ \/ inbox' = inbox
     \/ Post(j, <<Error("DownloadError")>>)
  /\ pc' = Upd(pc, j, "run_finally")
  /\ UNCHANGED <<ui, fvars, gvars, program, url, trace, video_stream, audio_stream,
                 filesize, exc, chunks, fs>>

\* worker.py lines 84-85: finally: finished.emit()
pool_run_finally(j) ==
  /\ program = "main"
  /\ pc[j] = "run_finally"
  /\ Post(j, <<Finished>>)
  /\ pc' = Upd(pc, j, "cleanup")
  /\ UNCHANGED <<ui, fvars, gvars, program, url, trace, video_stream, audio_stream,
                 filesize, exc, chunks, fs>>

\* worker.py lines 86-91: the scratch directory removed, or the removal
\* fails and the error is emitted; run returns
pool_run_cleanup(j) ==
  /\ program = "main"
  /\ pc[j] = "cleanup"
  /\ \/ inbox' = inbox
     \/ Post(j, <<Error(MsgCleanupFailed)>>)
  /\ pc' = Upd(pc, j, "done")
  /\ UNCHANGED <<ui, fvars, gvars, program, url, trace, video_stream, audio_stream,
                 filesize, exc, chunks, fs>>

\* line 173: progress connected to progress_bar.setValue
on_progress(u, p) == [u EXCEPT !.value = p]

\* lines 176-178: the three slots of finished
on_finished(u) == toggle_controls([u EXCEPT !.bar = FALSE, !.value = 0], TRUE)

\* lines 180-189: update_placeholder(text)
update_placeholder(u, text) ==
  LET shown == [u EXCEPT !.placeholder = text]
  IN IF text = MsgDownloaded THEN singleShot(shown) ELSE shown

\* lines 191-198: update_placeholder_error(error)
update_placeholder_error(u, error) ==
  singleShot(toggle_controls([u EXCEPT !.placeholder = error, !.bar = FALSE], TRUE))

\* the GUI thread's event loop delivers the oldest queued signal to its slots
deliver ==
  /\ program = "main"
  /\ inbox # << >>
  /\ LET e == Head(inbox).sig
     IN ui' = CASE e.k = "progress" -> on_progress(ui, e.n)
                [] e.k = "message"  -> update_placeholder(ui, e.s)
                [] e.k = "error"    -> update_placeholder_error(ui, e.s)
                [] e.k = "finished" -> on_finished(ui)
  /\ inbox' = Tail(inbox)
  /\ UNCHANGED <<fvars, wvars, gvars, program>>

\* a pending singleShot fires and restores the placeholder; others may
\* still be pending
timer_fires ==
  /\ program = "main"
  /\ ui.timer
  /\ \E more \in BOOLEAN :
       ui' = [ui EXCEPT !.placeholder = NoUi.placeholder, !.timer = more]
  /\ UNCHANGED <<inbox, fvars, wvars, gvars, program>>

MainNext ==
  \/ url_download_on_return
  \/ \E j \in Jobs :
       \/ pool_download_video_emits(j)
       \/ pool_run_download_video(j)
       \/ pool_run_finally(j)
       \/ pool_run_cleanup(j)
  \/ deliver
  \/ timer_fires

vars == <<ui, inbox, program, url, pc, trace, video_stream, audio_stream, filesize, exc, chunks, fs,
          declared, video_size, audio_size, video_done, audio_done,
          elapsed, last_emit, polls, tool_out, pipe, yt_title, stems, roman, result>>

Init ==
  \/ WorkerInit /\ GptFields /\ FnFields /\ MainFields
  \/ GptInit /\ FnFields /\ MainFields
  \/ SafeTitleInit /\ MainFields
  \/ RomanInit /\ MainFields
  \/ MainInit
Next == WorkerNext \/ GptNext \/ SafeTitleNext \/ RomanNext \/ MainNext
Spec == Init /\ [][Next]_vars

\* a gpt.py job whose thread and whose merge tool keep running: the tool
\* writes while the pipe takes its output, and the thread goes round its
\* wait loop and leaves it once the tool has exited
FairInit == GptInit /\ FnFields /\ MainFields
FairSpec ==
  /\ FairInit
  /\ [][GptNext]_vars
  /\ WF_vars(ffmpeg_writes)
  /\ WF_vars(gpt_run_merge_poll)
  /\ WF_vars(gpt_run_merge_exit)

(***************************************************************************)
(* Properties                                                              *)
(***************************************************************************)
\* the positions of entry e in trace t
Positions(t, e) == {i \in 1..Len(t) : t[i] = e}
Has(t, e) == Positions(t, e) # {}
\* the entries of the given kinds, by position
KindPositions(t, ks) == {i \in 1..Len(t) : t[i].k \in ks}

DownloadCalls == {Call("video.download"), Call("audio.download")}
WorkCalls == DownloadCalls \cup {Call("ffmpeg")}

\* C1: in worker.py every call of Worker.run emits finished exactly once,
\* whether download_video returned normally, returned early or raised:
\* never more than one finished, and exactly one from the finally clause on.
C1_FinishedExactlyOnce ==
  program = "worker" =>
    \A j \in Jobs :
      /\ CountIf(trace[j], "finished") <= 1
      /\ pc[j] \in {"cleanup", "done"} => CountIf(trace[j], "finished") = 1

\* a run that ended after a download raised, with its one finished
C1_Witness ==
  /\ program = "worker"
  /\ \E j \in Jobs : /\ pc[j] = "done"
                     /\ exc[j] = "DownloadError"
                     /\ CountIf(trace[j], "finished") = 1

\* C2: in worker.py, at the step at which Worker.run returns, the job's
\* scratch directory does not exist and rmtree was called on it exactly
\* once, for every job that got past makedirs, unless rmtree itself failed.
C2_ScratchRemovedOnce ==
  [][ program = "worker" =>
        \A j \in Jobs :
          ( /\ pc[j] = "cleanup" /\ pc'[j] = "done"
            /\ Has(trace[j], Call("YouTube"))
            /\ ~Has(trace'[j], Error(MsgCleanupFailed)) )
          => /\ ~fs'[temp_yt_folder(j)].dir
             /\ CountEv(trace'[j], Call("rmtree")) = 1 ]_vars

\* file kind of job j's scratch directory was written by another job whose
\* run() has not returned
ForeignFile(j, kind) ==
  LET o == fs[temp_yt_folder(j)][kind].owner
  IN o \in Jobs /\ o # j /\ Running(o)

\* C3: two concurrent worker.py jobs have isolated scratch workspaces: no
\* job starts a download over (writing or skipping), merges from (reading)
\* or removes in its cleanup a video.mp4 / audio.mp4 written by another job
\* that is still running.
C3_IsolatedScratch ==
  [][ program = "worker" =>
        \A j \in Jobs :
          /\ (pc[j] = "video" /\ video_stream[j] = "stream" /\ pc'[j] # pc[j])
               => ~ForeignFile(j, "video")
          /\ (pc[j] = "audio" /\ audio_stream[j] = "stream" /\ pc'[j] # pc[j])
               => ~ForeignFile(j, "audio")
          /\ (pc[j] = "merge" /\ pc'[j] # pc[j])
               => ~ForeignFile(j, "video") /\ ~ForeignFile(j, "audio")
          /\ (pc[j] = "cleanup" /\ pc'[j] = "done" /\ fs' # fs)
               => ~ForeignFile(j, "video") /\ ~ForeignFile(j, "audio") ]_vars

\* C4: in gpt.py every terminal path of Worker.run has emitted finished
\* exactly once and left no scratch directory behind.
C4_GptExitAction ==
  (program = "gpt" /\ pc[G] = "done") =>
    /\ CountIf(trace[G], "finished") = 1
    /\ ~fs[gpt_temp_yt_folder].dir

\* C5: in worker.py finished is the last signal of a job: no progress,
\* message or error entry follows it in the job's trace.
C5_FinishedLast ==
  program = "worker" =>
    \A j \in Jobs :
      \A i \in Positions(trace[j], Finished) :
        \A i2 \in KindPositions(trace[j], {"progress", "message", "error"}) : i2 < i

\* C6: in worker.py, once download_video has returned (or raised) for a
\* Worker whose url is empty, it has emitted exactly one error, the
\* empty-URL message, and has neither queried the provider nor called a
\* download or the merge tool.
C6_EmptyURLRejected ==
  program = "worker" =>
    \A j \in Jobs :
      (url[j] = "" /\ pc[j] \in {"run_except", "run_finally"}) =>
        /\ CountIf(trace[j], "error") = 1
        /\ Has(trace[j], Error(MsgEmptyURL))
        /\ ~Has(trace[j], Call("YouTube"))
        /\ \A c \in WorkCalls : ~Has(trace[j], c)

\* the errors a job reports about its own failure: all but the warning of
\* a failed cleanup and the progress-callback error
FailureErrors(t) ==
  {i \in KindPositions(t, {"error"}) :
     t[i] \notin {Error(MsgCleanupFailed), Error(MsgCallbackError)}}

\* C7: a worker.py job that ran to its end without completing the merge
\* has emitted the error signal exactly once.
C7_OneErrorPerFailedJob ==
  program = "worker" =>
    \A j \in Jobs :
      (pc[j] = "done" /\ ~Has(trace[j], Message(MsgDownloaded))) =>
        Cardinality(FailureErrors(trace[j])) = 1

SelectionErrors == {Error(MsgInvalidURL), Error(MsgUnavailable), Error(MsgErrorPrefix)}

\* C8: in worker.py, after the error of a failure raised while resolving
\* the URL or selecting the streams has been emitted, the job calls no
\* stream download and no merge.
C8_SelectionFailureAborts ==
  program = "worker" =>
    \A j \in Jobs :
      \A i \in 1..Len(trace[j]) :
        trace[j][i] \in SelectionErrors =>
          \A i2 \in (i + 1)..Len(trace[j]) : trace[j][i2] \notin WorkCalls

\* selection of job j ran to its end and yielded no video or no audio stream
NoStreamSelected(j) ==
  /\ audio_stream[j] # "unbound"
  /\ video_stream[j] = "none" \/ audio_stream[j] = "none"

\* C9: in both Workers, a job whose selection yields no video stream or no
\* audio stream emits "No suitable video or audio streams found" once and
\* ends (download_video has returned / run has returned) without calling a
\* stream download or the merge tool.
C9_NoStreamNoDownload ==
  \A j \in Jobs :
    NoStreamSelected(j) =>
      /\ CountEv(trace[j], Error(MsgNoStream)) = 1
      /\ \A c \in WorkCalls : ~Has(trace[j], c)
      /\ pc[j] \in (IF program = "worker" THEN {"run_finally", "cleanup", "done"}
                    ELSE {"done"})

\* a worker.py job that found a video stream but no audio stream has ended
C9_Witness ==
  /\ program = "worker"
  /\ \E j \in Jobs : /\ pc[j] = "done"
                     /\ video_stream[j] = "stream"
                     /\ audio_stream[j] = "none"
                     /\ Has(trace[j], Error(MsgNoStream))

\* C10: every value gpt.py's Worker emits on the progress signal is an
\* integer in 0..100, whatever sizes the provider declares (0 included)
\* and whatever bytes_remaining it reports.
C10_GptProgressInRange ==
  program = "gpt" =>
    \A i \in KindPositions(trace[G], {"progress"}) : trace[G][i].n \in 0..100

\* a job whose video stream declares size 0 has received callbacks and
\* gone on to report 100
C10_Witness ==
  /\ program = "gpt"
  /\ declared.v = 0
  /\ chunks[G] < MaxChunks
  /\ pc[G] = "done"
  /\ Has(trace[G], Progress(100))

\* the phase position i of trace t lies in: the callee of the last download
\* or merge call made before it ("" before the first)
PhaseAt(t, calls, i) ==
  LET cs == {k \in calls : k < i}
  IN IF cs = {} THEN "" ELSE t[CHOOSE k \in cs : \A m \in cs : m <= k].s
CallPositions(t) == {k \in 1..Len(t) : t[k].k = "call" /\ t[k] \in WorkCalls}
PhaseOf(t, i) == PhaseAt(t, CallPositions(t), i)

PhaseRange(ph) ==
  CASE ph = "video.download" -> 0..40
    [] ph = "audio.download" -> 40..80
    [] ph = "ffmpeg"         -> 80..100
    [] OTHER                 -> 0..100

NonIncreasingRemaining(t) ==
  \A i, i2 \in KindPositions(t, {"chunk"}) :
    (i < i2 /\ t[i].n < t[i2].n) => PhaseOf(t, i) # PhaseOf(t, i2)

\* the progress values of trace t never go down within a phase
MonotonicWithinPhase(t) ==
  \A i, i2 \in KindPositions(t, {"progress"}) :
    (i < i2 /\ t[i].n > t[i2].n) => PhaseOf(t, i) # PhaseOf(t, i2)

ExitedNonZero(t) == \E i \in 1..Len(t) : t[i].k = "ret" /\ t[i].s = "exit non-zero"

\* C13: when the merge subprocess exits with a non-zero status in gpt.py's
\* Worker.run, the job emits exactly one error, "ffmpeg failed: " with at
\* most 400 characters taken from the captured stderr, and emits neither
\* progress 100, nor the completion message, nor finished.
C13_GptMergeFailure ==
  program = "gpt" =>
    LET t == trace[G]
    IN ExitedNonZero(t) =>
         /\ CountIf(t, "error") = 1
         /\ \A i \in KindPositions(t, {"ret"}) :
              /\ i < Len(t)
              /\ t[i + 1].k = "error"
              /\ t[i + 1].s = MsgGptFfmpegFailed
              /\ t[i + 1].n <= StderrLimit
              /\ t[i + 1].n <= t[i].n
         /\ ~Has(t, Progress(100))
         /\ ~Has(t, Message(MsgGptComplete))
         /\ ~Has(t, Finished)

\* a job that ended after the tool exited non-zero leaving more than 400
\* characters on stderr, of which the error carries 400
C13_Witness ==
  /\ program = "gpt"
  /\ pc[G] = "done"
  /\ \E i \in KindPositions(trace[G], {"ret"}) :
       /\ trace[G][i] = Exited(1, StderrLimit + 1)
       /\ trace[G][i + 1] = Ev("error", MsgGptFfmpegFailed, StderrLimit)

\* the merge fractions passed to _emit_unified_progress once the merge
\* tool was started, by position
MergeFracs(t) ==
  LET calls == CallPositions(t)
  IN {i \in KindPositions(t, {"frac"}) : PhaseAt(t, calls, i) = "ffmpeg"}

MergeErrorAt(t, i, tail) ==
  /\ t[i + 1].k = "error"
  /\ t[i + 1].s = MsgMergeFailed
  /\ t[i + 1].x[1] = t[i].x[1]
  /\ t[i + 1].x[2] = MsgStderr
  /\ t[i + 1].x[3] = tail

\* ffmpeg_merge answers the outcome of subprocess.run at position i of
\* trace t with the one error of its kind and re-raises (the caller's
\* handler then reports the exception), or returns without an error on
\* exit code 0;
\* StderrShown(e) is what the error shows of the captured stderr e
MergeClassified(t, i, StderrShown(_)) ==
  CASE t[i].s = "notfound" ->
         /\ t[i + 1] = Error(MsgFfmpegNotFound)
         /\ t[i + 2] = Error("FileNotFoundError")
    [] t[i].s = "nonzero" ->
         /\ MergeErrorAt(t, i, StderrShown(t[i].x[2]))
         /\ t[i + 2] = Error("CalledProcessError")
    [] t[i].s = "ok" -> t[i + 1] = Returned("ffmpeg")
    [] OTHER -> TRUE

Captured(e) == e

\* C14 as stated: worker.py's ffmpeg_merge emits exactly one error,
\* "FFmpeg not found in $PATH.", when the tool cannot be launched; exactly
\* one error that starts with "FFmpeg merge failed. Command: " and ends
\* with ". Stderr: " followed by the captured stderr when the tool exits
\* non-zero; re-raises in both cases; and emits no error on exit code 0.
C14_MergeFailureClassified ==
  program = "worker" =>
    \A j \in Jobs :
      \A i \in KindPositions(trace[j], {"run"}) :
        MergeClassified(trace[j], i, Captured)

\* C14, amended: as above, but the error of a non-zero exit ends with
\* ". Stderr: " followed by the captured stderr with its leading and
\* trailing whitespace removed.
C14_MergeFailureClassifiedStripped ==
  program = "worker" =>
    \A j \in Jobs :
      \A i \in KindPositions(trace[j], {"run"}) :
        MergeClassified(trace[j], i, strip_text)

\* a job whose merge tool exited non-zero leaving "e" and a newline on
\* stderr; the error ends with "e"
C14_Witness ==
  /\ program = "worker"
  /\ \E j \in Jobs :
       \E i \in KindPositions(trace[j], {"run"}) :
         /\ trace[j][i].s = "nonzero"
         /\ trace[j][i].x[2] = <<"e", "\n">>
         /\ MergeErrorAt(trace[j], i, <<"e">>)
         /\ pc[j] = "done"

\* the calls of the downloads and of the merge, with their arguments and
\* their returns
IsStep(e) == e \in WorkCalls \/ e.k \in {"args", "ret"}

\* the steps of a job over scratch directory d that downloads and merges
\* into the file named after stem st
ExpectedSteps(d, st) ==
  <<Call("video.download"), Args("video.download", <<d, "video.mp4">>),
    Returned("video.download"),
    Call("audio.download"), Args("audio.download", <<d, "audio.mp4">>),
    Returned("audio.download"),
    Call("ffmpeg"),
    Args("ffmpeg", <<<<d, "video.mp4">>, <<d, "audio.mp4">>,
                     <<folder_path, st \o <<".mp4">>>>>>),
    Returned("ffmpeg")>>

\* C15: a worker.py job in which nothing failed has invoked the video
\* download once (into the scratch directory, as video.mp4), then, after
\* it returned, the audio download once (as audio.mp4), then, after that
\* returned, ffmpeg_merge once with (scratch/video.mp4, scratch/audio.mp4,
\* <folder_path>/<sanitized title>.mp4); and no job ever calls a download
\* or the merge a second time.
C15_CallOrder ==
  program = "worker" =>
    \A j \in Jobs :
      /\ \A c \in WorkCalls : CountEv(trace[j], c) <= 1
      /\ Has(trace[j], Message(MsgDownloaded)) =>
           \E i \in KindPositions(trace[j], {"title"}) :
             SelectSeq(trace[j], IsStep)
               = ExpectedSteps(temp_yt_folder(j), safe_title(trace[j][i].x))

\* a job that received a progress callback, merged into "a.mp4" and ended
C15_Witness ==
  /\ program = "worker"
  /\ \E j \in Jobs :
       /\ pc[j] = "done"
       /\ Has(trace[j], Message(MsgDownloaded))
       /\ Has(trace[j], Title(<<"a", " ">>))
       /\ KindPositions(trace[j], {"chunk"}) # {}

\* a filename stem as the sanitisers are to produce it for title t: only
\* permitted characters, no trailing whitespace, not empty, and the
\* fallback name when t has no permitted character
GoodStem(t, st) ==
  /\ \A i \in 1..Len(st) : Permitted(st[i])
  /\ st # << >>
  /\ st[Len(st)] \notin Whitespace
  /\ (\A i \in 1..Len(t) : ~Permitted(t[i])) => st = Ytdl

\* C16: for every title, the filename stem computed by gpt.py's run and the
\* one computed by worker.py's download_video contain only letters,
\* digits, spaces, underscores and hyphens, have no trailing whitespace and
\* are never empty: a title without a permitted character gives the fixed
\* fallback name.
C16_StemNeverEmpty ==
  program = "safe_title" =>
    /\ stems.worker # << >> => GoodStem(yt_title, stems.worker[1])
    /\ stems.gpt # << >> => GoodStem(yt_title, stems.gpt[1])

\* C17: for every n in 1..3999 roman_to_int_strict returns n for the
\* canonical numeral of n, and it returns 0 for the empty string.  (The
\* numerals of different numbers differ, so the first part says that the
\* value returned for a canonical numeral is the number it is the numeral
\* of.)
C17_CanonicalConverted ==
  (program = "roman" /\ result # NoResult) =>
    /\ roman \in Canonical =>
         /\ result[1].raises = ""
         /\ result[1].value \in 1..MaxRoman
         /\ ToRoman(result[1].value) = roman
    /\ roman = << >> => result[1] = Return(0)

\* the numeral of 3888, the longest, has been converted
C17_Witness ==
  /\ program = "roman"
  /\ roman = ToRoman(3888)
  /\ Len(roman) = 15
  /\ result = <<Return(3888)>>

\* C18: roman_to_int_strict raises ValueError, and returns nothing, for
\* every non-empty string that is not the canonical numeral of a number in
\* 1..3999.
C18_NonCanonicalRejected ==
  (program = "roman" /\ result # NoResult /\ roman # << >> /\ roman \notin Canonical)
    => result[1] = Raise("ValueError")

\* strings with a foreign character, a repeated V, four I in a row, the
\* pair IC and a numeral followed by a newline have all been rejected
C18_Witness ==
  /\ program = "roman"
  /\ roman \in {<<"A">>, <<"V", "V">>, <<"I", "I", "I", "I">>, <<"I", "C">>,
                <<"I", "V", "\n">>}
  /\ result = <<Raise("ValueError")>>

\* C20: in a worker.py job whose provider reports non-increasing
\* bytes_remaining for each stream, the progress values never go down
\* within a phase: the values of on_progress_callback during the video
\* download followed by the fixed 80, and those during the audio download
\* followed by the fixed 90.
C20_WorkerMonotonicWithinPhase ==
  program = "worker" =>
    \A j \in Jobs :
      NonIncreasingRemaining(trace[j]) => MonotonicWithinPhase(trace[j])

\* ---- C21 ----
\* the stream sizes of the gpt job are recorded: the job has called
\* video.download
SizesRecorded == program = "gpt" /\ Has(trace[G], Call("video.download"))
VideoReturned == SizesRecorded /\ Has(trace[G], Call("audio.download"))
AudioReturned == VideoReturned /\ Has(trace[G], Call("ffmpeg"))

\* C21: in every state of a gpt.py job after the stream sizes are recorded,
\* 0 <= video_done <= video_size and 0 <= audio_done <= audio_size with both
\* sizes at least 1; once the video download has returned video_done equals
\* video_size, and once the audio download has returned audio_done equals
\* audio_size.
C21_GptCountersClamped ==
  /\ SizesRecorded =>
       /\ video_size >= 1 /\ audio_size >= 1
       /\ 0 <= video_done /\ video_done <= video_size
       /\ 0 <= audio_done /\ audio_done <= audio_size
  /\ VideoReturned => video_done = video_size
  /\ AudioReturned => audio_done = audio_size

\* both declared sizes 0, callbacks reporting more bytes remaining than the
\* size in both downloads, and both downloads returned
C21_Witness ==
  /\ AudioReturned
  /\ declared = [v |-> 0, a |-> 0]
  /\ \E i, j \in Positions(trace[G], Chunk(1)) :
       \E c \in Positions(trace[G], Call("audio.download")) : i < c /\ c < j

\* ---- C22 ----
\* floor(n / d) for n >= 0 and d > 0, as the one integer q with
\* q * d <= n < (q + 1) * d
FloorOf(n, d) == CHOOSE q \in 0..n : q * d <= n /\ n < (q + 1) * d

\* job j's provider makes a progress callback in this step for a stream of
\* size total > 0 with 0 <= bytes_remaining <= total
CallbackInRange(j) ==
  /\ program = "worker"
  /\ Len(trace'[j]) > Len(trace[j])
  /\ trace'[j][Len(trace[j]) + 1].k = "chunk"
  /\ filesize[j] > 0
  /\ trace'[j][Len(trace[j]) + 1].n \in 0..filesize[j]

\* C22: for a stream with filesize total > 0 and 0 <= bytes_remaining <=
\* total, worker.py's on_progress_callback emits exactly one progress value,
\* floor((total - bytes_remaining) * 100 / total), and no error.
C22_CallbackPercent ==
  [][\A j \in Jobs :
       CallbackInRange(j) =>
         LET br == trace'[j][Len(trace[j]) + 1].n
         IN trace'[j] = trace[j] \o
              <<Chunk(br),
                Progress(FloorOf((filesize[j] - br) * 100, filesize[j]))>>]_vars

\* a callback for a stream of 3 bytes with 1 byte remaining emitted 66
C22_Witness ==
  /\ program = "worker"
  /\ \E j \in Jobs :
       /\ pc[j] \in {"video_dl", "audio_dl"}
       /\ filesize[j] = 3
       /\ Len(trace[j]) >= 2
       /\ trace[j][Len(trace[j]) - 1] = Chunk(1)
       /\ trace[j][Len(trace[j])] = Progress(66)

\* ---- C23 ----
\* C23: in a worker.py job the progress value 100 is emitted only after
\* ffmpeg_merge has returned successfully for that job; a job whose video
\* download, audio download or merge fails therefore never emits 100.
C23_HundredOnlyAfterMerge ==
  program = "worker" =>
    \A j \in Jobs :
      \A i \in Positions(trace[j], Progress(100)) :
        \E k \in Positions(trace[j], Returned("ffmpeg")) : k < i

\* ---- C24 ----
\* C24: in the main.py application at most one Worker is executing at any
\* time, and while a Worker is executing (from worker_init until its run
\* has returned, scratch-directory cleanup included) the URL input and the
\* folder button are disabled.
C24_OneWorkerAtATime ==
  program = "main" =>
    /\ Cardinality({j \in Jobs : Executing(j)}) <= 1
    /\ (\E j \in Jobs : Executing(j)) => ~ui.controls

\* ---- C25 ----
\* the job has emitted a terminal signal
TerminalSignal(t) == \E i \in 1..Len(t) : t[i].k \in {"finished", "error"}

\* C25: in a gpt.py job whose downloads both returned and whose merge tool
\* would exit after writing a finite amount of output, the merge wait loop
\* eventually terminates and the job emits a terminal signal (finished or
\* error), whatever the amount the tool writes to its pipes.
C25_MergeLoopTerminates ==
  (program = "gpt" /\ pc[G] = "merge_loop")
    ~> (pc[G] = "done" /\ TerminalSignal(trace[G]))

=============================================================================
